---- MODULE Spec2Model ----
(***************************************************************************)
(* Model of panda/extras/ioctl_faker.py: the one-time ioctl bit-field      *)
(* layout definition (do_ioctl_init), the Ioctl value object (constructor, *)
(* __eq__, __hash__), and the IoctlFaker store (the on_sys_ioctl_return    *)
(* callback and the get_*_returns accessors).                              *)
(*                                                                         *)
(* A 32-bit word is the pair <<hi, lo>> of its 16-bit halves, so that the  *)
(* whole 32-bit range is representable.  A Python set of Ioctl objects is  *)
(* a bag of records: set.add decides membership by __hash__ and __eq__, so *)
(* the number of stored objects with the same field values is part of the  *)
(* state and not fixed to one by the representation.                       *)
(***************************************************************************)
EXTENDS Integers, Sequences, FiniteSets, Bags

VARIABLES
    ioctl_initialized,  \* module global, line 11
    cdef,               \* widths of struct IoctlCmdBits as declared by ffi.cdef, or NoLayout
    cdef_arch,          \* history: arch argument of each do_ioctl_init call that ran ffi.cdef
    fakers,             \* constructed IoctlFaker objects: id -> [arch, osi]
    fail_returns,       \* id -> self._fail_returns
    success_returns,    \* id -> self._success_returns
    pc,                 \* position of each running on_sys_ioctl_return callback
    ev,                 \* arguments of each running callback (faker, fd, cmd, arg)
    ioctl,              \* local variable ioctl of each running callback
    regs,               \* cpu.env_ptr.regs[0] of the cpu each callback runs on
    writes,             \* history: number of writes of regs[0] by the current callback
    nevents,            \* number of callbacks delivered so far
    rpc,                \* position of the caller of get_*_returns
    rq,                 \* arguments of the running get_*_returns call
    it,                 \* the set iterator behind filter(): [used, seen]
    result              \* what the last get_*_returns call returned

vars == <<ioctl_initialized, cdef, cdef_arch, fakers, fail_returns, success_returns,
          pc, ev, ioctl, regs, writes, nevents, rpc, rq, it, result>>

globalVars == <<ioctl_initialized, cdef, cdef_arch>>
storeVars == <<fail_returns, success_returns>>
retrVars == <<rpc, rq, it, result>>

----------------------------------------------------------------------------
(* Bounds and input sets *)

MaxEvents == 2

\* slots for callback invocations in flight at the same time
Handlers == {1, 2}

SupportedArchs == {"i386", "x86_64", "arm", "aarch64", "ppc"}
Archs == SupportedArchs \cup {"unknown-arch"}

\* Python's None is the empty tuple and a present value v the tuple <<v>>
None == <<>>
Some(v) == <<v>>
\* no struct IoctlCmdBits has been declared yet
NoLayout == [type_bits |-> 0, cmd_bits |-> 0, size_bits |-> 0, dir_bits |-> 0]

\* raw command words <<hi, lo>>: 0x00005401, 0x80045403
RawCmds == {<<0, 21505>>, <<32772, 21507>>}
\* argument pointers
Ptrs == {4096, 8192}
\* guest buffer contents returned by virtual_memory_read
Bufs == {"b0", "b1"}
\* return register contents <<hi, lo>>: 0, 1, 0xFFFFFFFF (-1)
RegVals == {<<0, 0>>, <<0, 1>>, <<65535, 65535>>}
\* raw command words for the decoding checks: every pair of these half-words
\* (the all-zero and all-one words, the words of RawCmds, and the words around
\* the field boundaries of both layouts)
HiHalves == {0, 4, 8191, 8192, 16383, 16384, 32772, 49152, 65535}
LoHalves == {0, 1, 255, 256, 21505, 21507, 65535}
CodecWords == HiHalves \X LoHalves
Fds == {3}
ProcNames == {"bash", "ls"}
FileNames == {"/dev/ttyS0"}

----------------------------------------------------------------------------
(* do_ioctl_init: the layout widths *)

TYPE_BITS == 8
CMD_BITS == 8
\* the PPC option is left out
SIZE_BITS_default(arch) == 14

SIZE_BITS(arch) == IF arch # "ppc" THEN 14 ELSE 13
DIR_BITS(arch) == IF arch # "ppc" THEN 2 ELSE 3

\* the struct declared by ffi.cdef for the arch do_ioctl_init was called with
IoctlCmdBits(arch) ==
    [type_bits |-> TYPE_BITS, cmd_bits |-> CMD_BITS,
     size_bits |-> SIZE_BITS(arch), dir_bits |-> DIR_BITS(arch)]

\* enum ioctl_direction: the values that have a tag (IO, IOW, IOR, IOWR)
ioctl_direction == {0, 1, 2, 3}

\* arg_size declared with 8 bits
Bits_short_size(raw, layout) ==
    [type_num  |-> raw[2] % (2 ^ layout.type_bits),
     cmd_num   |-> (raw[2] \div (2 ^ layout.type_bits)) % (2 ^ layout.cmd_bits),
     arg_size  |-> raw[1] % (2 ^ 8),
     direction |-> (raw[1] \div (2 ^ layout.size_bits)) % (2 ^ layout.dir_bits)]

\* union IoctlCmdUnion: the bit-fields of a 32-bit word, packed from bit 0
\* (type_num and cmd_num fill the low half-word, arg_size and direction the
\* high one)
Bits(raw, layout) ==
    [type_num  |-> raw[2] % (2 ^ layout.type_bits),
     cmd_num   |-> (raw[2] \div (2 ^ layout.type_bits)) % (2 ^ layout.cmd_bits),
     arg_size  |-> raw[1] % (2 ^ layout.size_bits),
     direction |-> (raw[1] \div (2 ^ layout.size_bits)) % (2 ^ layout.dir_bits)]

----------------------------------------------------------------------------
(* class Ioctl *)

\* Panda.from_unsigned_guest for a 32-bit guest register
from_unsigned_guest(x) ==
    IF x[1] >= 32768 THEN (x[1] - 65536) * 65536 + x[2] ELSE x[1] * 65536 + x[2]

\* guest_ptr is stored whether or not the call has a buffer
Ioctl_ptr_always(cmd, guest_ptr, use_osi_linux, layout, mem, names) ==
    LET has == Bits(cmd, layout).arg_size > 0 IN
    [cmd |-> cmd,
     original_ret_code |-> None,
     osi |-> use_osi_linux,
     has_buf |-> has,
     guest_ptr |-> Some(guest_ptr),
     guest_buf |-> IF has THEN Some(mem) ELSE None,
     proc_name |-> IF use_osi_linux THEN Some(names[1]) ELSE None,
     file_name |-> IF use_osi_linux THEN Some(names[2]) ELSE None]

\* Ioctl.__init__ when no exception is raised; mem is what virtual_memory_read
\* returned, names what the OSI lookups returned
Ioctl(cmd, guest_ptr, use_osi_linux, layout, mem, names) ==
    LET has == Bits(cmd, layout).arg_size > 0 IN
    [cmd |-> cmd,
     original_ret_code |-> None,
     osi |-> use_osi_linux,
     has_buf |-> has,
     guest_ptr |-> IF has THEN Some(guest_ptr) ELSE None,
     guest_buf |-> IF has THEN Some(mem) ELSE None,
     proc_name |-> IF use_osi_linux THEN Some(names[1]) ELSE None,
     file_name |-> IF use_osi_linux THEN Some(names[2]) ELSE None]

set_ret_code(self, code) == [self EXCEPT !.original_ret_code = Some(code)]

\* line 154: the test that sends a call to the forced bin
failed_negative(self) == self.original_ret_code[1] < 0

failed(self) == self.original_ret_code # Some(0)

\* the return code is compared too
EqWithRetCode(self, other) ==
    /\ self.cmd = other.cmd
    /\ self.has_buf = other.has_buf
    /\ self.guest_ptr = other.guest_ptr
    /\ self.guest_buf = other.guest_buf
    /\ self.original_ret_code = other.original_ret_code

\* Ioctl.__eq__ (every object of the model is of class Ioctl)
Eq(self, other) ==
    /\ self.cmd = other.cmd
    /\ self.has_buf = other.has_buf
    /\ self.guest_ptr = other.guest_ptr
    /\ self.guest_buf = other.guest_buf
    /\ self.proc_name = self.proc_name
    /\ self.file_name = self.file_name

\* the return code is hashed too
HashWithRetCode(self) ==
    <<self.cmd, self.has_buf, self.guest_ptr, self.guest_buf, self.proc_name, self.file_name,
      self.original_ret_code>>

\* Ioctl.__hash__: the hashed tuple (distinct tuples are taken to hash apart)
Hash(self) ==
    <<self.cmd, self.has_buf, self.guest_ptr, self.guest_buf, self.proc_name, self.file_name>>

\* an entry that compares equal is replaced by the new object
SetReplace(s, x) ==
    IF \E y \in BagToSet(s) : Hash(y) = Hash(x) /\ Eq(y, x)
    THEN LET old == CHOOSE y \in BagToSet(s) : Hash(y) = Hash(x) /\ Eq(y, x)
         IN  (s (-) SetToBag({old})) (+) SetToBag({x})
    ELSE s (+) SetToBag({x})

\* list.append in place of set.add
ListAppend(s, x) == s (+) SetToBag({x})

\* set.add: an entry with the same hash that compares equal keeps the set as
\* it is
SetAdd(s, x) ==
    IF \E y \in BagToSet(s) : Hash(y) = Hash(x) /\ Eq(y, x) THEN s ELSE s (+) SetToBag({x})

----------------------------------------------------------------------------
(* Initial states: the IoctlFaker objects constructed *)

NoEvent == [faker |-> 0, fd |-> 0, cmd |-> <<0, 0>>, arg |-> 0]
NoRequest == [faker |-> 0, bucket |-> "none", with_buf_only |-> FALSE]
NoIoctl == [cmd |-> <<0, 0>>]
NoResult == [kind |-> "none"]
NoIter == [used |-> 0]

InitWith(ids, archs, osis) ==
    /\ ioctl_initialized = FALSE
    /\ cdef = NoLayout
    /\ cdef_arch = <<>>
    /\ fakers \in [ids -> [arch : archs, osi : osis]]
    /\ fail_returns = [f \in ids |-> EmptyBag]
    /\ success_returns = [f \in ids |-> EmptyBag]
    /\ pc = [h \in Handlers |-> "idle"]
    /\ ev = [h \in Handlers |-> NoEvent]
    /\ ioctl = [h \in Handlers |-> NoIoctl]
    /\ regs = [h \in Handlers |-> <<0, 0>>]
    /\ writes = [h \in Handlers |-> 0]
    /\ nevents = 0
    /\ rpc = "idle"
    /\ rq = NoRequest
    /\ it = NoIter
    /\ result = NoResult

\* one faker on an i386 guest, without OSI
Init == InitWith({1}, {"i386"}, {FALSE})

\* one faker on an i386 or a ppc guest, with or without OSI
InitSeq == InitWith({1}, {"i386", "ppc"}, BOOLEAN)

\* two fakers in one process, each on a guest of any architecture
InitArch == InitWith({1, 2}, Archs, {FALSE})

----------------------------------------------------------------------------
(* The on_sys_ioctl_return callback, one action per interruptible step *)

Fail == "Fail"

\* the exception that ended a callback, kept in the place of its local ioctl
Raised(exc) == [cmd |-> <<0, 0>>, exc |-> exc]

\* the ValueError of the memory read is swallowed and the call is built
\* around the failed read
Construct_read_unchecked(h, e) ==
    /\ cdef # NoLayout
    /\ \E mem \in Bufs \cup {Fail}, names \in (ProcNames \X FileNames) \cup {Fail} :
          LET use_osi == fakers[e.faker].osi
          IN  IF use_osi /\ names = Fail
              THEN /\ pc' = [pc EXCEPT ![h] = "raised"]
                   /\ ioctl' = [ioctl EXCEPT ![h] = Raised("osi lookup")]
              ELSE /\ pc' = [pc EXCEPT ![h] = "route"]
                   /\ ioctl' = [ioctl EXCEPT ![h] =
                          Ioctl(e.cmd, e.arg, use_osi, cdef, mem, names)]

\* Ioctl.__init__, lines 52-79, run by the callback in slot h: decode with the
\* declared struct, read the buffer (lines 60-66), then look up the names
\* (lines 70-76).  The guest memory read and the OSI lookups answer with any
\* of their possible results; no exception is caught on the way out of the
\* callback.
Construct(h, e) ==
    \/ /\ cdef = NoLayout      \* ffi.new of a union that is not declared yet
       /\ pc' = [pc EXCEPT ![h] = "raised"]
       /\ ioctl' = [ioctl EXCEPT ![h] = Raised("ffi.error")]
    \/ /\ cdef # NoLayout
       /\ \E mem \in Bufs \cup {Fail}, names \in (ProcNames \X FileNames) \cup {Fail} :
             LET use_osi == fakers[e.faker].osi
                 has == Bits(e.cmd, cdef).arg_size > 0
             IN  IF has /\ mem = Fail
                 THEN /\ pc' = [pc EXCEPT ![h] = "raised"]
                      /\ ioctl' = [ioctl EXCEPT ![h] =
                             Raised("RuntimeError: Failed to read guest buffer")]
                 ELSE IF use_osi /\ names = Fail
                 THEN /\ pc' = [pc EXCEPT ![h] = "raised"]
                      /\ ioctl' = [ioctl EXCEPT ![h] = Raised("osi lookup")]
                 ELSE /\ pc' = [pc EXCEPT ![h] = "route"]
                      /\ ioctl' = [ioctl EXCEPT ![h] =
                             Ioctl(e.cmd, e.arg, use_osi, cdef, mem, names)]

\* the syscalls2 plugin calls the callback of faker f in the lowest free slot;
\* line 151 runs up to the latch test of do_ioctl_init (lines 15-16) and, when
\* the latch is set, through Ioctl.__init__
DeliverWith(h, cmds) ==
    /\ pc[h] \in {"idle", "done", "raised"}
    /\ \A g \in Handlers : g < h => pc[g] \notin {"idle", "done", "raised"}
    /\ nevents < MaxEvents
    /\ nevents' = nevents + 1
    /\ writes' = [writes EXCEPT ![h] = 0]
    /\ \E f \in DOMAIN fakers, fd \in Fds, cmd \in cmds, arg \in Ptrs, r \in RegVals :
          LET e == [faker |-> f, fd |-> fd, cmd |-> cmd, arg |-> arg] IN
          /\ regs' = [regs EXCEPT ![h] = r]
          /\ IF ioctl_initialized
             THEN /\ Construct(h, e)
                  /\ ev' = [ev EXCEPT ![h] = [NoEvent EXCEPT !.faker = f]]
             ELSE /\ pc' = [pc EXCEPT ![h] = "init_set"]
                  /\ ioctl' = [ioctl EXCEPT ![h] = NoIoctl]
                  /\ ev' = [ev EXCEPT ![h] = e]
    /\ UNCHANGED <<globalVars, fakers, storeVars, retrVars>>

Deliver(h) == DeliverWith(h, RawCmds)

\* do_ioctl_init, line 17: the latch is set
do_ioctl_init_set(h) ==
    /\ pc[h] = "init_set"
    /\ ioctl_initialized' = TRUE
    /\ pc' = [pc EXCEPT ![h] = "init_cdef"]
    /\ UNCHANGED <<cdef, cdef_arch, fakers, storeVars, ev, ioctl, regs, writes, nevents, retrVars>>

\* do_ioctl_init, lines 18-42: ffi.cdef declares the struct with the widths of
\* this call's arch (ffi.cdef refuses a second declaration of a struct), and
\* Ioctl.__init__ follows
do_ioctl_init_cdef(h) ==
    /\ pc[h] = "init_cdef"
    /\ \/ /\ cdef = NoLayout
          /\ cdef' = IoctlCmdBits(fakers[ev[h].faker].arch)
          /\ cdef_arch' = Append(cdef_arch, fakers[ev[h].faker].arch)
          /\ pc' = [pc EXCEPT ![h] = "construct"]
          /\ UNCHANGED ioctl
       \/ /\ cdef # NoLayout
          /\ pc' = [pc EXCEPT ![h] = "raised"]
          /\ ioctl' = [ioctl EXCEPT ![h] = Raised("ffi.error")]
          /\ UNCHANGED <<cdef, cdef_arch>>
    /\ UNCHANGED <<ioctl_initialized, fakers, storeVars, ev, regs, writes, nevents, retrVars>>

\* line 151 after do_ioctl_init has returned: Ioctl.__init__, lines 52-79
Ioctl_init(h) ==
    /\ pc[h] = "construct"
    /\ Construct(h, ev[h])
    /\ ev' = [ev EXCEPT ![h] = [NoEvent EXCEPT !.faker = ev[h].faker]]
    /\ UNCHANGED <<globalVars, fakers, storeVars, regs, writes, nevents, retrVars>>

\* the register is forced when the return code is read, before the call is
\* binned
RouteOverrideFirst(h) ==
    /\ pc[h] = "route"
    /\ LET obj == set_ret_code(ioctl[h], from_unsigned_guest(regs[h]))
       IN  /\ ioctl' = [ioctl EXCEPT ![h] = obj]
           /\ IF failed(obj)
              THEN /\ regs' = [regs EXCEPT ![h] = <<0, 0>>]
                   /\ writes' = [writes EXCEPT ![h] = @ + 1]
                   /\ pc' = [pc EXCEPT ![h] = "override"]
                   /\ UNCHANGED storeVars
              ELSE /\ success_returns' = [success_returns EXCEPT ![ev[h].faker] = SetAdd(@, obj)]
                   /\ pc' = [pc EXCEPT ![h] = "done"]
                   /\ UNCHANGED <<fail_returns, regs, writes>>
    /\ UNCHANGED <<globalVars, fakers, ev, nevents, retrVars>>

\* lines 152-155 and 162: the return code is read and the call is binned
Route(h) ==
    /\ pc[h] = "route"
    /\ LET f == ev[h].faker
           obj == set_ret_code(ioctl[h], from_unsigned_guest(regs[h]))
       IN  /\ ioctl' = [ioctl EXCEPT ![h] = obj]
           /\ IF failed(obj)
              THEN /\ fail_returns' = [fail_returns EXCEPT ![f] = SetAdd(@, obj)]
                   /\ pc' = [pc EXCEPT ![h] = "override"]
                   /\ UNCHANGED success_returns
              ELSE /\ success_returns' = [success_returns EXCEPT ![f] = SetAdd(@, obj)]
                   /\ pc' = [pc EXCEPT ![h] = "done"]
                   /\ UNCHANGED fail_returns
    /\ UNCHANGED <<globalVars, fakers, ev, regs, writes, nevents, retrVars>>

\* lines 156-160: the return register is forced to 0 (and the call is logged)
Override(h) ==
    /\ pc[h] = "override"
    /\ regs' = [regs EXCEPT ![h] = <<0, 0>>]
    /\ writes' = [writes EXCEPT ![h] = @ + 1]
    /\ pc' = [pc EXCEPT ![h] = "done"]
    /\ UNCHANGED <<globalVars, fakers, storeVars, ev, ioctl, nevents, retrVars>>

on_sys_ioctl_return(h) ==
    \/ do_ioctl_init_set(h)
    \/ do_ioctl_init_cdef(h)
    \/ Ioctl_init(h)
    \/ Route(h)
    \/ Override(h)

----------------------------------------------------------------------------
(* get_forced_returns / get_unmodified_returns *)

handlerVars == <<pc, ev, ioctl, regs, writes, nevents>>

Source(f, bucket) == IF bucket = "forced" THEN fail_returns[f] ELSE success_returns[f]

\* the entries a sequence holds, as a bag
SeqToBag(q) ==
    LET vals == {q[i] : i \in DOMAIN q} IN
    [x \in vals |-> Cardinality({i \in DOMAIN q : q[i] = x})]

\* what a returned result holds now: a list keeps its items, the set object
\* that was handed out is the faker's own set
Items(res) ==
    IF res.kind = "none" THEN EmptyBag
    ELSE IF res.kind = "list" THEN SeqToBag(res.items)
    ELSE Source(res.faker, res.bucket)

\* line 167: the lambda of the filter
keep_all(i) == TRUE

with_buf(i) == i.has_buf = TRUE

\* the entries of the set the iterator has not yielded yet
Unseen(src, seen) == {x \in BagToSet(src) : CopiesIn(x, src) > CopiesIn(x, seen)}

\* _get_returns, lines 166-169.  With with_buf_only the filter object is
\* drained by list(): the set iterator is created and yields its first entry
get_returns(f, bucket, with_buf_only) ==
    /\ rpc \in {"idle", "done", "error"}
    /\ rq' = [faker |-> f, bucket |-> bucket, with_buf_only |-> with_buf_only]
    /\ IF ~with_buf_only
       THEN /\ result' = [kind |-> "set", faker |-> f, bucket |-> bucket]
            /\ rpc' = "done"
            /\ it' = NoIter
       ELSE IF Source(f, bucket) = EmptyBag
       THEN /\ result' = [kind |-> "list", items |-> <<>>]
            /\ rpc' = "done"
            /\ it' = NoIter
       ELSE /\ \E x \in BagToSet(Source(f, bucket)) :
                  it' = [used |-> BagCardinality(Source(f, bucket)), seen |-> SetToBag({x}),
                         cur |-> x, acc |-> <<>>]
            /\ rpc' = "filter"
            /\ result' = NoResult
    /\ UNCHANGED <<globalVars, fakers, storeVars, handlerVars>>

\* line 167: the lambda is applied to the entry in hand, then the set iterator
\* is asked for the next one; it raises RuntimeError when the set has changed
\* size since the iterator was created
filter_next ==
    /\ rpc = "filter"
    /\ LET src == Source(rq.faker, rq.bucket)
           acc == IF with_buf(it.cur) THEN Append(it.acc, it.cur) ELSE it.acc
       IN  IF BagCardinality(src) # it.used
           THEN /\ rpc' = "error"
                /\ it' = NoIter
                /\ result' = NoResult
           ELSE IF Unseen(src, it.seen) = {}
           THEN /\ rpc' = "done"
                /\ it' = NoIter
                /\ result' = [kind |-> "list", items |-> acc]
           ELSE /\ \E x \in Unseen(src, it.seen) :
                      it' = [used |-> it.used, seen |-> it.seen (+) SetToBag({x}),
                             cur |-> x, acc |-> acc]
                /\ rpc' = "filter"
                /\ UNCHANGED result
    /\ UNCHANGED <<globalVars, fakers, storeVars, handlerVars, rq>>

get_forced_returns(f, with_buf_only) == get_returns(f, "forced", with_buf_only)

get_unmodified_returns(f, with_buf_only) == get_returns(f, "unmodified", with_buf_only)

Retrieve ==
    \/ \E f \in DOMAIN fakers, b \in BOOLEAN : get_forced_returns(f, b)
    \/ \E f \in DOMAIN fakers, b \in BOOLEAN : get_unmodified_returns(f, b)
    \/ filter_next

Next ==
    \/ \E h \in Handlers : Deliver(h)
    \/ \E h \in Handlers : on_sys_ioctl_return(h)
    \/ Retrieve

\* callbacks may run concurrently with each other and with the retrieving thread
Spec == Init /\ [][Next]_vars

\* callbacks are delivered one at a time (the emulation thread runs them in
\* turn); the retrieving thread runs beside them
NextSeq ==
    \/ Deliver(1)
    \/ on_sys_ioctl_return(1)
    \/ Retrieve

SpecSeq == InitSeq /\ [][NextSeq]_vars

\* the callbacks of two fakers, delivered one at a time
NextArch ==
    \/ Deliver(1)
    \/ on_sys_ioctl_return(1)

SpecArch == InitArch /\ [][NextArch]_vars

\* decoding alone: one faker on a guest of a supported architecture, commands
\* drawn from CodecWords, callbacks run up to the constructed Ioctl
InitCodec == InitWith({1}, SupportedArchs, {FALSE})

NextCodec ==
    \/ DeliverWith(1, CodecWords)
    \/ do_ioctl_init_set(1)
    \/ do_ioctl_init_cdef(1)
    \/ Ioctl_init(1)

SpecCodec == InitCodec /\ [][NextCodec]_vars

----------------------------------------------------------------------------
(* Properties *)

\* two observed calls agree on every identity field
AgreeAll(x, y) ==
    /\ x.cmd = y.cmd
    /\ x.has_buf = y.has_buf
    /\ x.guest_ptr = y.guest_ptr
    /\ x.guest_buf = y.guest_buf
    /\ x.proc_name = y.proc_name
    /\ x.file_name = y.file_name

\* the bucket has an entry that agrees with x on every identity field
Holds(bucket, x) == \E y \in BagToSet(bucket) : AgreeAll(y, x)

Routed(h) == pc[h] \in {"override", "done"}

\* the statuses of the entries of the two buckets
BucketsByStatus ==
    \A f \in DOMAIN fakers :
        /\ \A x \in BagToSet(fail_returns[f]) :
              x.original_ret_code # None /\ x.original_ret_code # Some(0)
        /\ \A x \in BagToSet(success_returns[f]) : x.original_ret_code = Some(0)

\* what the binning step of a callback does to the two buckets
RouteStep ==
    \A h \in Handlers :
        (pc[h] = "route" /\ pc'[h] # "route") =>
            LET f == ev[h].faker IN
            IF from_unsigned_guest(regs[h]) # 0
            THEN /\ \E y \in BagToSet(fail_returns'[f]) :
                        AgreeAll(y, ioctl[h]) /\ y.original_ret_code # Some(0)
                 /\ success_returns' = success_returns
            ELSE /\ \E y \in BagToSet(success_returns'[f]) :
                        AgreeAll(y, ioctl[h]) /\ y.original_ret_code = Some(0)
                 /\ fail_returns' = fail_returns

\* C1 - Routing.  Every entry of a forced bucket has a nonzero original return
\* status and every entry of an unmodified bucket has status zero; and each
\* binning step of a callback puts a call whose status is nonzero into the
\* forced bucket and leaves the unmodified bucket as it was, and puts a call
\* whose status is zero into the unmodified bucket and leaves the forced
\* bucket as it was.
C1_Routing == []BucketsByStatus /\ [][RouteStep]_vars

\* a call that returned -1 is in the forced bucket and a call that returned 0
\* in the unmodified bucket
C1_Witness ==
    /\ \E x \in BagToSet(fail_returns[1]) : x.original_ret_code = Some(-1)
    /\ \E x \in BagToSet(success_returns[1]) : x.original_ret_code = Some(0)


\* C2 - Override ordering.  A callback writes the return register at most
\* once; a callback that has binned a call with a nonzero status and has
\* finished has written the register exactly once, with 0; the write comes
\* only after the call is in the forced bucket (at the point right before the
\* write the call is already there and nothing is written yet); a callback
\* that has binned a call with status zero has not written the register.
C2_OverrideOrdering ==
    \A h \in Handlers :
        /\ writes[h] <= 1
        /\ pc[h] = "override" =>
              /\ writes[h] = 0
              /\ failed(ioctl[h])
              /\ Holds(fail_returns[ev[h].faker], ioctl[h])
        /\ writes[h] = 1 =>
              /\ pc[h] = "done"
              /\ regs[h] = <<0, 0>>
              /\ failed(ioctl[h])
              /\ Holds(fail_returns[ev[h].faker], ioctl[h])
        /\ (pc[h] = "done" /\ ioctl[h].original_ret_code # Some(0)) => writes[h] = 1
        /\ (pc[h] = "done" /\ ioctl[h].original_ret_code = Some(0)) =>
              /\ writes[h] = 0
              /\ regs[h] = <<0, 0>>

\* a callback that saw -1 has finished: its call is the one entry of the
\* forced bucket and the register holds 0
C2_Witness ==
    /\ pc[1] = "done"
    /\ ioctl[1].original_ret_code = Some(-1)
    /\ ioctl[1].has_buf = FALSE
    /\ BagCardinality(fail_returns[1]) = 1
    /\ regs[1] = <<0, 0>>
    /\ writes[1] = 1


Buckets(f) == {fail_returns[f], success_returns[f]}

\* the number of entries of the bucket that agree with x on every identity field
CountAgree(bucket, x) ==
    BagCardinality([y \in {z \in BagToSet(bucket) : AgreeAll(z, x)} |-> CopiesIn(y, bucket)])

\* every entry of a bucket is the only one with its identity fields
NoTwoAgree ==
    \A f \in DOMAIN fakers : \A b \in Buckets(f) : \A x \in BagToSet(b) : CountAgree(b, x) = 1

\* binning a call that the target bucket already holds
RecordEqualStep ==
    \A h \in Handlers :
        (pc[h] = "route" /\ pc'[h] # "route") =>
            LET f == ev[h].faker IN
            /\ Holds(fail_returns[f], ioctl[h]) /\ from_unsigned_guest(regs[h]) # 0
                  => BagCardinality(fail_returns'[f]) = BagCardinality(fail_returns[f])
            /\ Holds(success_returns[f], ioctl[h]) /\ from_unsigned_guest(regs[h]) = 0
                  => BagCardinality(success_returns'[f]) = BagCardinality(success_returns[f])

\* C3 - Dedup idempotence.  No bucket holds two entries that agree on raw
\* command value, buffer presence, pointer, buffer bytes, process name and
\* file name; and a binning step whose call agrees on all of them with an
\* entry of its target bucket leaves the size of that bucket unchanged.
C3_DedupIdempotence == []NoTwoAgree /\ [][RecordEqualStep]_vars

\* a call with a buffer and names that returned -1 was binned, and the same
\* call that returned 1 was binned after it: the forced bucket holds one entry
C3_Witness ==
    /\ pc[1] = "done"
    /\ nevents = 2
    /\ fakers[1].osi
    /\ ioctl[1].has_buf
    /\ ioctl[1].original_ret_code = Some(1)
    /\ BagCardinality(fail_returns[1]) = 1
    /\ \E y \in BagToSet(fail_returns[1]) :
          AgreeAll(y, ioctl[1]) /\ y.original_ret_code = Some(-1)

\* the Ioctl objects alive: the entries of the buckets and the calls the
\* callbacks hold
Objects ==
    UNION {BagToSet(fail_returns[f]) \cup BagToSet(success_returns[f]) : f \in DOMAIN fakers}
        \cup {ioctl[h] : h \in {g \in Handlers : pc[g] \in {"route", "override", "done"}}}

\* C4 - Equality over all identity fields.  Two observed calls compare equal
\* (__eq__) if and only if raw command value, has_buf, pointer, buffer bytes,
\* process name and file name all match.
C4_EqualityAllFields == \A x \in Objects : \A y \in Objects : Eq(x, y) <=> AgreeAll(x, y)

\* C5 - Concurrent dedup.  When the callbacks in the two slots have both
\* binned calls that agree on every identity field, for the same faker and
\* with the same routing, the target bucket holds exactly one entry for them.
C5_ConcurrentDedup ==
    \A h1 \in Handlers : \A h2 \in Handlers \ {h1} :
        ( /\ Routed(h1) /\ Routed(h2)
          /\ ev[h1].faker = ev[h2].faker
          /\ AgreeAll(ioctl[h1], ioctl[h2])
          /\ failed(ioctl[h1]) = failed(ioctl[h2]) )
        => LET f == ev[h1].faker
               target == IF failed(ioctl[h1]) THEN fail_returns[f] ELSE success_returns[f]
           IN  CountAgree(target, ioctl[h1]) = 1

\* both callbacks are in flight, past the binning of two equal failed calls
\* with a buffer, and the forced bucket holds one entry
C5_Witness ==
    /\ pc[1] = "override" /\ pc[2] = "override"
    /\ AgreeAll(ioctl[1], ioctl[2])
    /\ ioctl[1].has_buf
    /\ BagCardinality(fail_returns[1]) = 1

\* C6 - Retrieval under concurrency.  A get_*_returns call never ends in an
\* error, and every entry of a returned result is an entry of the bucket it
\* was asked for.
C6_RetrieveSafe ==
    /\ rpc # "error"
    /\ rpc = "done" =>
          \A x \in BagToSet(Items(result)) : x \in BagToSet(Source(rq.faker, rq.bucket))

\* the entries of a bucket that have a buffer
WithBuf(bucket) == [x \in {z \in BagToSet(bucket) : z.has_buf} |-> CopiesIn(x, bucket)]

\* what a get_*_returns call hands back when it returns
RetrieveStep ==
    (retrVars' # retrVars /\ rpc' = "done") =>
        IF rq'.with_buf_only
        THEN /\ result'.kind = "list"
             /\ SeqToBag(result'.items) = WithBuf(Source(rq'.faker, rq'.bucket))
        ELSE Items(result') = Source(rq'.faker, rq'.bucket)

\* C7 - Filtered retrieval.  A get_*_returns call that returns with
\* with_buf_only = True returns a list holding exactly the entries of the
\* bucket whose has_buf is true, each once; with with_buf_only = False it
\* returns every entry of the bucket.
C7_FilteredRetrieval == [][RetrieveStep]_vars

\* a filtered retrieval has returned one entry of a bucket of two
C7_Witness ==
    /\ rpc = "done"
    /\ rq.with_buf_only
    /\ result.kind = "list"
    /\ Len(result.items) = 1
    /\ BagCardinality(Source(rq.faker, rq.bucket)) = 2


Decoded(h) == pc[h] \in {"route", "override", "done"}

\* the number of ffi.cdef declarations made for the architecture
Declarations(a) == Cardinality({i \in DOMAIN cdef_arch : cdef_arch[i] = a})

\* C8 - Layout resolution per architecture.  The layout is declared at most
\* once per architecture, and whenever a callback has decoded a call for a
\* guest of architecture A, the layout in effect is the one do_ioctl_init
\* yields for A, whichever architecture was initialised first.
C8_LayoutPerArchitecture ==
    /\ \A a \in Archs : Declarations(a) <= 1
    /\ \A h \in Handlers :
          Decoded(h) => cdef = IoctlCmdBits(fakers[ev[h].faker].arch)

\* the widths the layout is to have for a supported architecture
DefaultLayout == [type_bits |-> 8, cmd_bits |-> 8, size_bits |-> 14, dir_bits |-> 2]
AlternateLayout == [type_bits |-> 8, cmd_bits |-> 8, size_bits |-> 13, dir_bits |-> 3]

WidthSum(layout) == layout.type_bits + layout.cmd_bits + layout.size_bits + layout.dir_bits

\* C9 - Layout values.  The layout do_ioctl_init declares for a supported
\* architecture other than "ppc" is type 8, cmd 8, size 14, dir 2; for "ppc"
\* it has size 13 and dir 3; the four widths of the declared layout sum to 32.
C9_LayoutValues ==
    cdef # NoLayout =>
        /\ Len(cdef_arch) >= 1
        /\ cdef_arch[1] \in SupportedArchs \ {"ppc"} => cdef = DefaultLayout
        /\ cdef_arch[1] = "ppc" => cdef = AlternateLayout
        /\ cdef_arch[1] \in SupportedArchs => WidthSum(cdef) = 32

\* the first callback ran for a ppc guest and has decoded a call with the
\* alternate layout
C9_Witness ==
    /\ cdef_arch = <<"ppc">>
    /\ cdef = AlternateLayout
    /\ WidthSum(cdef) = 32
    /\ Decoded(1)

\* C10 - Unsupported architecture.  do_ioctl_init establishes no layout for an
\* architecture outside the supported set, and the callback that asked for it
\* does not go on to decode a call.
C10_UnsupportedRejected ==
    /\ \A i \in DOMAIN cdef_arch : cdef_arch[i] \in SupportedArchs
    /\ \A h \in Handlers : Decoded(h) => fakers[ev[h].faker].arch \in SupportedArchs

\* bit i of a 32-bit word, bit 0 the least significant
BitAt(raw, i) == IF i < 16 THEN (raw[2] \div (2 ^ i)) % 2 ELSE (raw[1] \div (2 ^ (i - 16))) % 2

\* the number written by the width bits of the word from bit off upwards
RECURSIVE FieldAt(_, _, _)
FieldAt(raw, off, width) ==
    IF width = 0 THEN 0
    ELSE BitAt(raw, off) + 2 * FieldAt(raw, off + 1, width - 1)

\* the fields the callback in slot h reads through the union of its call
DecodedBits(h) == Bits(ioctl[h].cmd, cdef)

\* C11 - Decode field positions.  For the command word of every constructed
\* call and the layout in effect, type_num is the lowest type_bits bits of the
\* word, cmd_num the next cmd_bits bits, arg_size the next size_bits bits and
\* direction the top dir_bits bits; 0x00005401 under the default layout
\* decodes to type_num 0x54, cmd_num 0x01, arg_size 0, direction 0.
C11_DecodePositions ==
    \A h \in Handlers :
        Decoded(h) =>
            LET raw == ioctl[h].cmd
                b == DecodedBits(h)
            IN  /\ b.type_num = FieldAt(raw, 0, cdef.type_bits)
                /\ b.cmd_num = FieldAt(raw, cdef.type_bits, cdef.cmd_bits)
                /\ b.arg_size = FieldAt(raw, cdef.type_bits + cdef.cmd_bits, cdef.size_bits)
                /\ b.direction = FieldAt(raw, 32 - cdef.dir_bits, cdef.dir_bits)
                /\ (raw = <<0, 21505>> /\ cdef = DefaultLayout) =>
                       b = [type_num |-> 84, cmd_num |-> 1, arg_size |-> 0, direction |-> 0]

\* C12 - Invalid direction is a decode error.  A call whose direction field
\* has no tag in enum ioctl_direction is not decoded: no callback goes on to
\* bin it or to force its return register, and no bucket holds it.
C12_InvalidDirectionRejected ==
    /\ \A h \in Handlers : Decoded(h) => DecodedBits(h).direction \in ioctl_direction
    /\ \A f \in DOMAIN fakers : \A x \in BagToSet(fail_returns[f]) \cup BagToSet(success_returns[f]) :
          Bits(x.cmd, cdef).direction \in ioctl_direction

ReadError == Raised("RuntimeError: Failed to read guest buffer")

\* the callback in slot h has ended with the buffer read error
BufferReadFailed(h) == pc[h] = "raised" /\ ioctl[h] = ReadError

\* the step in which a callback ends with the buffer read error leaves both
\* buckets as they are and does not write the return register
ReadFailureStep ==
    \A h \in Handlers :
        (BufferReadFailed(h)' /\ (pc[h] # "raised" \/ nevents' # nevents)) =>
            /\ storeVars' = storeVars
            /\ writes'[h] = 0
            /\ nevents' = nevents => regs'[h] = regs[h]

\* after the buffer read error: the register has not been written and the
\* next event can be delivered to the callback
AfterReadFailure ==
    \A h \in Handlers :
        BufferReadFailed(h) =>
            /\ writes[h] = 0
            /\ (nevents < MaxEvents /\ \A g \in Handlers : g < h => pc[g] \notin {"idle", "done", "raised"})
                   => ENABLED Deliver(h)

\* every call that was constructed with a buffer holds bytes that were read
BufferCaptured ==
    /\ \A h \in Handlers : (Decoded(h) /\ ioctl[h].has_buf) => ioctl[h].guest_buf[1] \in Bufs
    /\ \A f \in DOMAIN fakers : \A x \in BagToSet(fail_returns[f]) \cup BagToSet(success_returns[f]) :
          x.has_buf => x.guest_buf[1] \in Bufs

\* C13 - Buffer read failure drops the event.  When arg_size > 0 and the read
\* of the guest buffer fails, construction ends with the buffer read error,
\* no call without captured bytes is binned, the buckets and the return
\* register are left as they are by that event, and the callback takes the
\* events delivered afterwards.
C13_ReadFailureDropsEvent ==
    /\ [](AfterReadFailure /\ BufferCaptured)
    /\ [][ReadFailureStep]_vars

\* the second event failed with return code -1 and its buffer could not be
\* read: the register still holds -1 and the forced bucket its one entry
C13_Witness ==
    /\ BufferReadFailed(1)
    /\ nevents = 2
    /\ regs[1] = <<65535, 65535>>
    /\ writes[1] = 0
    /\ BagCardinality(fail_returns[1]) = 1
    /\ success_returns[1] = EmptyBag

\* C14 - Enrichment failure is non-fatal.  A failing OSI lookup does not end
\* the callback: the call is still constructed, binned and, when it failed,
\* its return register forced.
C14_EnrichmentNonFatal ==
    \A h \in Handlers : ~(pc[h] = "raised" /\ ioctl[h] = Raised("osi lookup"))

\* the 32-bit word that holds the four fields at their positions in the layout
Pack(b, layout) ==
    <<b.arg_size + b.direction * (2 ^ layout.size_bits),
      b.type_num + b.cmd_num * (2 ^ layout.type_bits)>>

\* C15 - Decode round-trip / injectivity.  Under the layout in effect, packing
\* the decoded fields of a command word back at their bit positions gives the
\* word again, decoding that word gives the same fields, and another command
\* word decodes to the same fields only if it is the same word.
C15_DecodeRoundTrip ==
    \A h \in Handlers :
        Decoded(h) =>
            LET raw == ioctl[h].cmd
                b == DecodedBits(h)
            IN  /\ Pack(b, cdef) = raw
                /\ Bits(Pack(b, cdef), cdef) = b
                /\ \A w \in CodecWords : (Bits(w, cdef) = b) <=> (w = raw)

\* the all-ones word has been decoded with the ppc layout
C15_Witness ==
    /\ Decoded(1)
    /\ cdef = AlternateLayout
    /\ ioctl[1].cmd = <<65535, 65535>>
    /\ DecodedBits(1) = [type_num |-> 255, cmd_num |-> 255, arg_size |-> 8191, direction |-> 7]
    /\ Pack(DecodedBits(1), cdef) = <<65535, 65535>>

\* the entries of both buckets of faker f
Stored(f) == BagToSet(fail_returns[f]) \cup BagToSet(success_returns[f])

\* the fields of call x fit together, for a faker constructed with use_osi
WellFormed(x, use_osi) ==
    /\ x.has_buf = (Bits(x.cmd, cdef).arg_size > 0)
    /\ (x.guest_ptr # None) = x.has_buf
    /\ (x.guest_buf # None) = x.has_buf
    /\ (x.proc_name # None) = use_osi
    /\ (x.file_name # None) = use_osi

\* C16 - Observed-call well-formedness.  Every constructed and every stored
\* call has has_buf true exactly when its arg_size is above 0, its pointer
\* and its buffer bytes present exactly when has_buf is true, and its process
\* and file names present exactly when the faker was asked for OSI names.
C16_WellFormed ==
    /\ \A h \in Handlers : Decoded(h) => WellFormed(ioctl[h], fakers[ev[h].faker].osi)
    /\ \A f \in DOMAIN fakers : \A x \in Stored(f) : WellFormed(x, fakers[f].osi)

\* a faker with OSI names holds a call with a buffer and a call without one
C16_Witness ==
    /\ fakers[1].osi
    /\ \E x \in Stored(1) : x.has_buf /\ x.guest_ptr # None /\ x.proc_name # None
    /\ \E y \in Stored(1) : ~y.has_buf /\ y.guest_ptr = None /\ y.file_name # None

\* C17 - Return status is for routing only.  Calls that agree on every
\* identity field compare equal and hash alike whatever their return codes;
\* a bucket holds at most one entry for them, so failed calls with different
\* nonzero codes collapse to one entry, and a call seen failing and
\* succeeding has one entry in each bucket.
C17_StatusRoutingOnly ==
    /\ \A x \in Objects : \A y \in Objects :
          AgreeAll(x, y) => (Eq(x, y) /\ Hash(x) = Hash(y))
    /\ \A f \in DOMAIN fakers : \A x \in Stored(f) :
          /\ CountAgree(fail_returns[f], x) <= 1
          /\ CountAgree(success_returns[f], x) <= 1
    /\ \A h \in Handlers :
          Routed(h) =>
              CountAgree(IF failed(ioctl[h]) THEN fail_returns[ev[h].faker]
                         ELSE success_returns[ev[h].faker], ioctl[h]) >= 1

\* a call that failed with -1 and then succeeded has one entry in each bucket
C17_Witness ==
    /\ pc[1] = "done"
    /\ nevents = 2
    /\ ioctl[1].original_ret_code = Some(0)
    /\ BagCardinality(fail_returns[1]) = 1
    /\ BagCardinality(success_returns[1]) = 1
    /\ \E y \in BagToSet(fail_returns[1]) :
          AgreeAll(y, ioctl[1]) /\ y.original_ret_code = Some(-1)
    /\ \E z \in BagToSet(success_returns[1]) : AgreeAll(z, ioctl[1])

\* every entry of the buckets before the step is an entry after it
GrowStep ==
    \A f \in DOMAIN fakers :
        /\ fail_returns[f] \sqsubseteq fail_returns'[f]
        /\ success_returns[f] \sqsubseteq success_returns'[f]

\* C18 - Monotonic growth.  Every step of the callbacks and of the accessors
\* leaves each bucket holding all the entries it held before: entries are
\* added and never removed or replaced.
C18_MonotonicGrowth == [][GrowStep]_vars

\* two events have been binned, one in each bucket, and a filtered retrieval
\* has returned
C18_Witness ==
    /\ nevents = 2
    /\ BagCardinality(fail_returns[1]) = 1
    /\ BagCardinality(success_returns[1]) = 1
    /\ rpc = "done"
    /\ result.kind = "list"

\* C19 - Hash/equality consistency.  Two calls that compare equal under
\* __eq__ have the same __hash__ key.
C19_EqImpliesHash == \A x \in Objects : \A y \in Objects : Eq(x, y) => Hash(x) = Hash(y)

\* a result that was returned holds after the step what it held before
SnapshotStep ==
    (result # NoResult /\ result' = result) => Items(result)' = Items(result)

\* C20 - Retrieval returns a snapshot.  What a get_*_returns call returned,
\* with with_buf_only true or false, is fixed at the time of the call: calls
\* binned later do not change a result returned earlier.
C20_RetrievalSnapshot == [][SnapshotStep]_vars

====
